---- MODULE Spec2Model ----
(***************************************************************************)
(* Model of pnl_native (src/app/pnl_native/src/lib.rs): the FIFO           *)
(* lot-matching profit engine behind summarise_trades and the order/fill   *)
(* reconciliation of process_orders_internal.                              *)
(*                                                                         *)
(* Conventions.                                                            *)
(*  - Option<T> is a sequence: None is <<>>, Some(x) is <<x>>.             *)
(*  - Decimal is an integer: every decimal drawn is a whole number far     *)
(*    inside rust_decimal's 96-bit range, where +, -, * and the            *)
(*    comparisons are exact.                                               *)
(*  - DateTime<Utc> is [secs, nanos], ordered lexicographically.           *)
(*  - Text is a TLA+ string; each parser is a table over the vocabulary    *)
(*    of texts the inputs are drawn from.                                  *)
(***************************************************************************)
EXTENDS Integers, Sequences, FiniteSets, TLC

VARIABLES
    pc,              \* position of the running call
    trades_in,       \* summarise_trades: trades (Vec<TradeInput>)
    intervals,       \* summarise_trades: intervals (Vec<IntervalSpec>)
    now_us,          \* summarise_trades: now_timestamp_us
    cutoff_us,       \* summarise_trades: cutoff_timestamp_us
    maker_fee_rate,  \* summarise_trades: maker_fee_rate (text)
    taker_fee_rate,  \* summarise_trades: taker_fee_rate (text)
    maker_fee,       \* parsed maker_fee_rate
    taker_fee,       \* parsed taker_fee_rate
    parsed_trades,   \* the sorted Vec<Trade> handed to build_entries
    long_lots,       \* build_entries: long_lots
    short_lots,      \* build_entries: short_lots
    entries,         \* build_entries: entries
    intervals_py,    \* summarise_trades: one metrics record per interval done
    total_before,    \* summarise_trades: total_before
    total_after,     \* summarise_trades: total_after
    opc,             \* position of the running process_orders_internal call
    orders,          \* process_orders_internal: orders (&[RawOrder])
    fills,           \* process_orders_internal: fills (&[RawFill])
    fills_by_order,  \* process_orders_internal: fills_by_order
    oidx,            \* number of orders the loop has taken
    config_type,     \* config_type of the order taken last
    config_opt,      \* config_opt of the order taken last
    open_records,    \* process_orders_internal: open_records
    executed_records \* process_orders_internal: executed_records

pnlVars == <<pc, trades_in, intervals, now_us, cutoff_us, maker_fee_rate,
             taker_fee_rate, maker_fee, taker_fee, parsed_trades, long_lots, short_lots, entries, intervals_py,
             total_before, total_after>>

orderVars == <<opc, orders, fills, fills_by_order, oidx, config_type, config_opt,
               open_records, executed_records>>

vars == <<pnlVars, orderVars>>

\* ------------------------------------------------------------------ bounds

MaxTrades == 3
MaxRaw == 2
MaxIntervals == 2
MaxOrders == 2

\* --------------------------------------------------------------- utilities

None == <<>>
Some(x) == <<x>>
Unwrap(o) == o[1]

RECURSIVE SumSeq(_)
SumSeq(s) == IF s = <<>> THEN 0 ELSE Head(s) + SumSeq(Tail(s))

DateTime(secs, nanos) == [secs |-> secs, nanos |-> nanos]

\* DateTime's derived ordering: seconds first, then the sub-second part.
DtLt(a, b) == a.secs < b.secs \/ (a.secs = b.secs /\ a.nanos < b.nanos)

\* No reconciliation call is running.
OrdersIdle ==
    /\ opc = "idle"
    /\ orders = <<>>
    /\ fills = <<>>
    /\ fills_by_order = <<>>
    /\ oidx = 0
    /\ config_type = "Unknown"
    /\ config_opt = None
    /\ open_records = <<>>
    /\ executed_records = <<>>

\* No summary call is running.
PnlIdle ==
    /\ pc = "idle"
    /\ trades_in = <<>>
    /\ intervals = <<>>
    /\ now_us = 0
    /\ cutoff_us = 0
    /\ maker_fee_rate = ""
    /\ taker_fee_rate = ""
    /\ maker_fee = 0
    /\ taker_fee = 0
    /\ parsed_trades = <<>>
    /\ long_lots = <<>>
    /\ short_lots = <<>>
    /\ entries = <<>>
    /\ intervals_py = <<>>
    /\ total_before = 0
    /\ total_after = 0

\* ------------------------------------------------------------ build_entries

Lot(price, size) == [price |-> price, size |-> size]

\* The back of the queue is matched first (last-in-first-out).
RECURSIVE MatchLots_lifo(_, _, _, _, _)
MatchLots_lifo(lots, remaining, realized, price, side) ==
    IF remaining > 0 /\ lots # <<>>
    THEN LET n       == Len(lots)
             back    == lots[n]
             matched == IF remaining <= back.size THEN remaining ELSE back.size
             gain    == IF side = "Buy" THEN (back.price - price) * matched
                                        ELSE (price - back.price) * matched
             size2   == back.size - matched
             lots2   == IF size2 <= 0 THEN SubSeq(lots, 1, n - 1)
                        ELSE [lots EXCEPT ![n].size = size2]
         IN  MatchLots_lifo(lots2, remaining - matched, realized + gain, price, side)
    ELSE [lots |-> lots, remaining |-> remaining, realized |-> realized]

\* Both arms take the profit of a sell: trade price less lot price.
RECURSIVE MatchLots_sameSign(_, _, _, _, _)
MatchLots_sameSign(lots, remaining, realized, price, side) ==
    IF remaining > 0 /\ lots # <<>>
    THEN LET front   == Head(lots)
             matched == IF remaining <= front.size THEN remaining ELSE front.size
             gain    == (price - front.price) * matched
             size2   == front.size - matched
             lots2   == IF size2 <= 0 THEN Tail(lots)
                        ELSE <<Lot(front.price, size2)>> \o Tail(lots)
         IN  MatchLots_sameSign(lots2, remaining - matched, realized + gain, price, side)
    ELSE [lots |-> lots, remaining |-> remaining, realized |-> realized]

\* The while loop of one match arm: `lots` is the opposite-side queue of a
\* trade of the given side and price; the result is the queue, the unmatched
\* remainder and the realized profit when the loop exits.
RECURSIVE MatchLots(_, _, _, _, _)
MatchLots(lots, remaining, realized, price, side) ==
    IF remaining > 0 /\ lots # <<>>
    THEN LET front   == Head(lots)
             matched == IF remaining <= front.size THEN remaining ELSE front.size
             gain    == IF side = "Buy" THEN (front.price - price) * matched
                                        ELSE (price - front.price) * matched
             size2   == front.size - matched
             lots2   == IF size2 <= 0 THEN Tail(lots)
                        ELSE <<Lot(front.price, size2)>> \o Tail(lots)
         IN  MatchLots(lots2, remaining - matched, realized + gain, price, side)
    ELSE [lots |-> lots, remaining |-> remaining, realized |-> realized]

\* A lot is pushed whatever is left of the trade.
PushRemainder_always(lots, remaining, price) ==
    Append(lots, Lot(price, remaining))

\* The remainder of a trade becomes a new lot at the back of its own queue.
PushRemainder(lots, remaining, price) ==
    IF remaining > 0 THEN Append(lots, Lot(price, remaining)) ELSE lots

\* Both volumes carry the notional.
MakeEntry_both(trade, realized, mfee, tfee) ==
    LET notional == trade.price * trade.size
    IN  [timestamp       |-> trade.timestamp,
         realized_profit |-> realized,
         maker_volume    |-> notional,
         taker_volume    |-> notional,
         fee             |-> notional * (IF trade.post_only THEN mfee ELSE tfee)]

\* The Entry pushed for a trade after matching.
MakeEntry(trade, realized, mfee, tfee) ==
    LET notional     == trade.price * trade.size
        maker_volume == IF trade.post_only THEN notional ELSE 0
        taker_volume == IF trade.post_only THEN 0 ELSE notional
        fee_rate     == IF trade.post_only THEN mfee ELSE tfee
    IN  [timestamp       |-> trade.timestamp,
         realized_profit |-> realized,
         maker_volume    |-> maker_volume,
         taker_volume    |-> taker_volume,
         fee             |-> notional * fee_rate]

\* One iteration of `for trade in trades`: the state of the run after `trade`.
ProcessTrade(run, trade, mfee, tfee) ==
    LET opp  == IF trade.side = "Buy" THEN run.short_lots ELSE run.long_lots
        own  == IF trade.side = "Buy" THEN run.long_lots ELSE run.short_lots
        m    == MatchLots(opp, trade.size, 0, trade.price, trade.side)
        own2 == PushRemainder(own, m.remaining, trade.price)
    IN  [long_lots  |-> IF trade.side = "Buy" THEN own2 ELSE m.lots,
         short_lots |-> IF trade.side = "Buy" THEN m.lots ELSE own2,
         entries    |-> Append(run.entries, MakeEntry(trade, m.realized, mfee, tfee))]

\* The next trade of the batch is processed.
BuildStep ==
    /\ pc = "build"
    /\ Len(entries) < Len(parsed_trades)
    /\ LET trade == parsed_trades[Len(entries) + 1]
           run   == ProcessTrade([long_lots |-> long_lots, short_lots |-> short_lots,
                                  entries |-> entries], trade, maker_fee, taker_fee)
       IN  /\ long_lots' = run.long_lots
           /\ short_lots' = run.short_lots
           /\ entries' = run.entries
    /\ UNCHANGED <<pc, trades_in, intervals, now_us, cutoff_us, maker_fee_rate,
                   taker_fee_rate, maker_fee, taker_fee, parsed_trades, intervals_py,
                   total_before, total_after>>
    /\ UNCHANGED orderVars

\* -------------------------------------------------------- summarise_trades

\* str::to_ascii_uppercase over the texts in use.
to_ascii_uppercase(text) ==
    CASE text = "buy"    -> "BUY"
      [] text = "sell"   -> "SELL"
      [] text = "Sell"   -> "SELL"
      [] text = "hold"   -> "HOLD"
      [] text = "open"   -> "OPEN"
      [] text = "Open"   -> "OPEN"
      [] text = "filled" -> "FILLED"
      [] OTHER           -> text

\* Side::try_from: None stands for the Err.
Side_try_from(value) ==
    LET upper == to_ascii_uppercase(value)
    IN  CASE upper = "BUY"  -> Some("Buy")
          [] upper = "SELL" -> Some("Sell")
          [] OTHER          -> None

\* Decimal::from_str over the texts in use (no trimming): None is the Err.
Decimal_from_str(text) ==
    CASE text = "0"  -> Some(0)
      [] text = "1"  -> Some(1)
      [] text = "2"  -> Some(2)
      [] text = "3"  -> Some(3)
      [] text = "-1" -> Some(-1)
      [] OTHER       -> None

parse_decimal(value) == Decimal_from_str(value)

MicrosPerSecond == 1000000
NanosPerMicro == 1000

\* timestamp_us_to_datetime; every timestamp drawn is in NaiveDateTime's range.
timestamp_us_to_datetime(ts) ==
    LET secs   == ts \div MicrosPerSecond
        micros == ts % MicrosPerSecond
    IN  DateTime(secs, micros * NanosPerMicro)

\* A trade is inserted before the trades of its own timestamp.
InsertByKey_unstable(sorted, trade) ==
    LET k == Cardinality({i \in 1..Len(sorted) :
                            DtLt(sorted[i].timestamp, trade.timestamp)})
    IN  SubSeq(sorted, 1, k) \o <<trade>> \o SubSeq(sorted, k + 1, Len(sorted))

\* A trade is inserted after every trade whose timestamp is not later.
InsertByKey(sorted, trade) ==
    LET k == Cardinality({i \in 1..Len(sorted) :
                            ~DtLt(trade.timestamp, sorted[i].timestamp)})
    IN  SubSeq(sorted, 1, k) \o <<trade>> \o SubSeq(sorted, k + 1, Len(sorted))

\* parsed_trades.sort_by_key(|trade| trade.timestamp): a stable sort.
RECURSIVE sort_by_key(_)
sort_by_key(s) ==
    IF s = <<>> THEN <<>>
    ELSE InsertByKey(sort_by_key(SubSeq(s, 1, Len(s) - 1)), s[Len(s)])

\* The loop `for trade in trades` of summarise_trades: err when a `?` returns.
RECURSIVE ParseLoop(_, _, _)
ParseLoop(raw, cutoff, acc) ==
    IF raw = <<>> THEN [err |-> FALSE, trades |-> acc]
    ELSE LET t     == Head(raw)
             price == parse_decimal(t.price)
             size  == parse_decimal(t.size)
             side  == Side_try_from(t.side)
             ts    == timestamp_us_to_datetime(t.timestamp_us)
         IN  IF price = None \/ size = None THEN [err |-> TRUE, trades |-> <<>>]
             ELSE IF Unwrap(size) <= 0 \/ Unwrap(price) <= 0
                  THEN ParseLoop(Tail(raw), cutoff, acc)
             ELSE IF DtLt(ts, cutoff) THEN ParseLoop(Tail(raw), cutoff, acc)
             ELSE IF side = None THEN [err |-> TRUE, trades |-> <<>>]
             ELSE ParseLoop(Tail(raw), cutoff, Append(acc,
                      [timestamp |-> ts, side |-> Unwrap(side), price |-> Unwrap(price),
                       size |-> Unwrap(size), post_only |-> t.post_only]))

\* The window reaches back deltaSeconds from now, whatever the cutoff.
interval_start_unclamped(now, delta, cutoff) ==
    IF delta = None THEN cutoff
    ELSE LET seconds == IF Unwrap(delta) > 0 THEN Unwrap(delta) ELSE 0
         IN  DateTime(now.secs - seconds, now.nanos)

interval_start(now, delta, cutoff) ==
    IF delta = None THEN cutoff
    ELSE LET seconds == IF Unwrap(delta) > 0 THEN Unwrap(delta) ELSE 0
             start   == DateTime(now.secs - seconds, now.nanos)
         IN  IF DtLt(start, cutoff) THEN cutoff ELSE start

ZeroMetrics ==
    [profit_before_fees |-> 0, maker_volume |-> 0, taker_volume |-> 0, fee_total |-> 0]

\* An entry stamped exactly at start is skipped too.
RECURSIVE SumEntries_strict(_, _, _)
SumEntries_strict(es, start, acc) ==
    IF es = <<>> THEN acc
    ELSE LET e == Head(es)
         IN  IF ~DtLt(start, e.timestamp) THEN SumEntries_strict(Tail(es), start, acc)
             ELSE SumEntries_strict(Tail(es), start,
                      [profit_before_fees |-> acc.profit_before_fees + e.realized_profit,
                       maker_volume       |-> acc.maker_volume + e.maker_volume,
                       taker_volume       |-> acc.taker_volume + e.taker_volume,
                       fee_total          |-> acc.fee_total + e.fee])

\* The loop `for entry in entries` of summarise_interval.
RECURSIVE SumEntries(_, _, _)
SumEntries(es, start, acc) ==
    IF es = <<>> THEN acc
    ELSE LET e == Head(es)
         IN  IF DtLt(e.timestamp, start) THEN SumEntries(Tail(es), start, acc)
             ELSE SumEntries(Tail(es), start,
                      [profit_before_fees |-> acc.profit_before_fees + e.realized_profit,
                       maker_volume       |-> acc.maker_volume + e.maker_volume,
                       taker_volume       |-> acc.taker_volume + e.taker_volume,
                       fee_total          |-> acc.fee_total + e.fee])

summarise_interval(es, start) ==
    LET acc == SumEntries(es, start, ZeroMetrics)
    IN  [profit_before_fees |-> acc.profit_before_fees,
         maker_volume       |-> acc.maker_volume,
         taker_volume       |-> acc.taker_volume,
         fee_total          |-> acc.fee_total,
         profit_after_fees  |-> acc.profit_before_fees - acc.fee_total]

\* Any key seeds the totals.
SeedsTotals_any(key) == TRUE

\* `if spec.key == "all"`.
SeedsTotals(key) == key = "all"

Now == timestamp_us_to_datetime(now_us)
Cutoff == timestamp_us_to_datetime(cutoff_us)

\* The call up to the sort: fee rates, now and cutoff are parsed, the trades
\* are parsed, filtered and sorted; any `?` that fails ends the call.
ParseTrades ==
    /\ pc = "start"
    /\ LET mf == parse_decimal(maker_fee_rate)
           tf == parse_decimal(taker_fee_rate)
           r  == ParseLoop(trades_in, Cutoff, <<>>)
       IN  IF mf = None \/ tf = None \/ r.err
           THEN /\ pc' = "error"
                /\ UNCHANGED <<maker_fee, taker_fee, parsed_trades>>
           ELSE /\ pc' = "build"
                /\ maker_fee' = Unwrap(mf)
                /\ taker_fee' = Unwrap(tf)
                /\ parsed_trades' = sort_by_key(r.trades)
    /\ UNCHANGED <<trades_in, intervals, now_us, cutoff_us, maker_fee_rate,
                   taker_fee_rate, long_lots, short_lots, entries, intervals_py,
                   total_before, total_after>>
    /\ UNCHANGED orderVars

\* One iteration of `for spec in &intervals`.
IntervalStep ==
    /\ pc = "build"
    /\ Len(entries) = Len(parsed_trades)
    /\ Len(intervals_py) < Len(intervals)
    /\ LET spec    == intervals[Len(intervals_py) + 1]
           start   == interval_start(Now, spec.delta_seconds, Cutoff)
           metrics == summarise_interval(entries, start)
       IN  /\ intervals_py' = Append(intervals_py,
                  [key |-> spec.key, start |-> start, metrics |-> metrics])
           /\ IF SeedsTotals(spec.key)
              THEN /\ total_before' = metrics.profit_before_fees
                   /\ total_after' = metrics.profit_after_fees
              ELSE UNCHANGED <<total_before, total_after>>
    /\ UNCHANGED <<pc, trades_in, intervals, now_us, cutoff_us, maker_fee_rate,
                   taker_fee_rate, maker_fee, taker_fee, parsed_trades, long_lots,
                   short_lots, entries>>
    /\ UNCHANGED orderVars

\* The result dictionary is returned.
ReturnResult ==
    /\ pc = "build"
    /\ Len(entries) = Len(parsed_trades)
    /\ Len(intervals_py) = Len(intervals)
    /\ pc' = "done"
    /\ UNCHANGED <<trades_in, intervals, now_us, cutoff_us, maker_fee_rate,
                   taker_fee_rate, maker_fee, taker_fee, parsed_trades, long_lots,
                   short_lots, entries, intervals_py, total_before, total_after>>
    /\ UNCHANGED orderVars

\* ------------------------------------------ specification: summarise_trades

RawTrade(ts, side, price, size, post_only) ==
    [timestamp_us |-> ts, side |-> side, price |-> price, size |-> size,
     post_only |-> post_only]

IntervalSpec(key, delta) == [key |-> key, delta_seconds |-> delta]

\* Raw trades of every kind the normalizer tells apart, around a cutoff of
\* 1.5 s (before it, at it, after it): well-formed ones of any side text, and
\* ones whose price or size is unparseable or not positive.
RawShapes ==
    [timestamp_us : {500000, 1500000, 2000000},
     side         : {"BUY", "sell", "HOLD"},
     price        : {"1", "3"},
     size         : {"1"},
     post_only    : {FALSE}]
    \cup
    [timestamp_us : {500000, 2000000},
     side         : {"BUY", "HOLD"},
     price        : {"x", "0"},
     size         : {"1"},
     post_only    : {FALSE}]
    \cup
    [timestamp_us : {500000, 2000000},
     side         : {"BUY", "HOLD"},
     price        : {"1"},
     size         : {"0", "-1"},
     post_only    : {FALSE}]

NormalizerInputs ==
    [trades    : UNION {[1..n -> RawShapes] : n \in 0..MaxRaw},
     intervals : {<<IntervalSpec("all", None), IntervalSpec("1s", Some(1))>>},
     now_us    : {3000000},
     cutoff_us : {1500000},
     maker     : {"1"},
     taker     : {"2"}]

\* A fixed history for the aggregator: trades at 1 s, 1.5 s, 1.5 s, 2 s, 3.5 s
\* and at -0.5 s, given out of order.
AggTrades ==
    <<RawTrade(1500000, "BUY", "1", "2", TRUE),
      RawTrade(1000000, "BUY", "2", "1", FALSE),
      RawTrade(3500000, "SELL", "3", "1", TRUE),
      RawTrade(1500000, "SELL", "3", "2", FALSE),
      RawTrade(-500000, "sell", "1", "1", FALSE),
      RawTrade(2000000, "buy", "1", "3", FALSE)>>

IntervalShapes ==
    [key           : {"all", "day"},
     delta_seconds : {None, Some(-1), Some(0), Some(1), Some(2), Some(5)}]

AggregatorInputs ==
    [trades    : {AggTrades},
     intervals : UNION {[1..n -> IntervalShapes] : n \in 0..MaxIntervals},
     now_us    : {3500000, 3000000, 0},
     cutoff_us : {1500000, 1000000, -1500000},
     maker     : {"1"},
     taker     : {"2"}]

\* Fee rates as texts: whole numbers, and texts Decimal::from_str rejects.
FeeInputs ==
    [trades    : {AggTrades},
     intervals : {<<IntervalSpec("all", None)>>},
     now_us    : {3500000},
     cutoff_us : {1000000},
     maker     : {"0", "1", "x"},
     taker     : {"1", "2", " 2", ""}]

InitPnl ==
    \E inp \in NormalizerInputs \cup AggregatorInputs \cup FeeInputs :
        /\ pc = "start"
        /\ trades_in = inp.trades
        /\ intervals = inp.intervals
        /\ now_us = inp.now_us
        /\ cutoff_us = inp.cutoff_us
        /\ maker_fee_rate = inp.maker
        /\ taker_fee_rate = inp.taker
        /\ maker_fee = 0
        /\ taker_fee = 0
        /\ parsed_trades = <<>>
        /\ long_lots = <<>>
        /\ short_lots = <<>>
        /\ entries = <<>>
        /\ intervals_py = <<>>
        /\ total_before = 0
        /\ total_after = 0
        /\ OrdersIdle

NextPnl == ParseTrades \/ BuildStep \/ IntervalStep \/ ReturnResult

SpecPnl == InitPnl /\ [][NextPnl]_vars

\* ------------------------------------------------- specification: matching

\* Trades as build_entries receives them: positive price and size, sorted by
\* timestamp (two trades per second, so equal timestamps occur).
TradeShapes ==
    [side : {"Buy", "Sell"}, price : {1, 3}, size : {1, 2}, post_only : BOOLEAN]

Stamp(shapes) ==
    [i \in 1..Len(shapes) |->
        [timestamp |-> DateTime(i \div 2, 0),
         side      |-> shapes[i].side,
         price     |-> shapes[i].price,
         size      |-> shapes[i].size,
         post_only |-> shapes[i].post_only]]

Buy(price, size) == [side |-> "Buy", price |-> price, size |-> size, post_only |-> FALSE]
Sell(price, size) == [side |-> "Sell", price |-> price, size |-> size, post_only |-> FALSE]

\* Three buys of size 1 at 10, 20, 30, then a sell of size 2 at 100.
FifoExample == Stamp(<<Buy(10, 1), Buy(20, 1), Buy(30, 1), Sell(100, 2)>>)

MatchInputs ==
    {Stamp(s) : s \in UNION {[1..n -> TradeShapes] : n \in 0..MaxTrades}}
        \cup {FifoExample}

InitMatch ==
    /\ pc = "build"
    /\ trades_in = <<>>
    /\ intervals = <<>>
    /\ now_us = 0
    /\ cutoff_us = 0
    /\ maker_fee_rate = ""
    /\ taker_fee_rate = ""
    /\ maker_fee \in {0, 1}
    /\ taker_fee \in {1, 2}
    /\ parsed_trades \in MatchInputs
    /\ long_lots = <<>>
    /\ short_lots = <<>>
    /\ entries = <<>>
    /\ intervals_py = <<>>
    /\ total_before = 0
    /\ total_after = 0
    /\ OrdersIdle

NextMatch == BuildStep

SpecMatch == InitMatch /\ [][NextMatch]_vars

\* --------------------------------------------------- JSON values and texts

\* serde_json::Value: kind is the variant, text the content of a String, a
\* Number (as Number::to_string prints it) or a Bool, fields the map of an
\* Object.
VString(text) == [kind |-> "String", text |-> text, fields |-> <<>>]
VNumber(text) == [kind |-> "Number", text |-> text, fields |-> <<>>]
VBool(text) == [kind |-> "Bool", text |-> text, fields |-> <<>>]
VNull == [kind |-> "Null", text |-> "", fields |-> <<>>]
VObject(fields) == [kind |-> "Object", text |-> "", fields |-> fields]

\* Option::or_else.
OrElse(a, b) == IF a # None THEN a ELSE b

\* Map::get and HashMap::get.
Get(map, key) == IF key \in DOMAIN map THEN Some(map[key]) ELSE None

\* Value::as_object.
as_object(v) == IF v.kind = "Object" THEN Some(v.fields) ELSE None

value_to_string(v) ==
    IF v.kind \in {"String", "Number", "Bool"} THEN Some(v.text) ELSE None

option_to_string(value) ==
    IF value = None THEN None ELSE value_to_string(Unwrap(value))

\* str::trim over the texts in use.
Trim(text) ==
    CASE text = "   "                    -> ""
      [] text = " 2"                     -> "2"
      [] text = " 1970-01-01T00:00:40Z " -> "1970-01-01T00:00:40Z"
      [] OTHER                           -> text

decimal_from_value(value) ==
    LET text == option_to_string(value)
    IN  IF text = None THEN None ELSE Decimal_from_str(Trim(Unwrap(text)))

\* parse_datetime_text over the texts in use: RFC 3339 (with an offset, moved
\* to UTC), then the two naive formats, each with an optional fraction.
parse_datetime_text(text) ==
    LET trimmed == Trim(text)
    IN  CASE trimmed = ""                          -> None
          [] trimmed = "1970-01-01T00:00:05Z"      -> Some(DateTime(5, 0))
          [] trimmed = "1970-01-01T00:00:07Z"      -> Some(DateTime(7, 0))
          [] trimmed = "1970-01-01T00:00:10Z"      -> Some(DateTime(10, 0))
          [] trimmed = "1970-01-01T01:00:20+01:00" -> Some(DateTime(20, 0))
          [] trimmed = "1970-01-01T00:00:30.5"     -> Some(DateTime(30, 500000000))
          [] trimmed = "1970-01-01 00:00:35"       -> Some(DateTime(35, 0))
          [] trimmed = "1970-01-01T00:00:40Z"      -> Some(DateTime(40, 0))
          [] trimmed = "1970-01-01T00:01:00Z"      -> Some(DateTime(60, 0))
          [] OTHER                                 -> None

\* Option<&str>::and_then(parse_datetime_text).
ParseOptTime(text) == IF text = None THEN None ELSE parse_datetime_text(Unwrap(text))

\* Option<String> that is neither None nor empty.
NonEmpty(text) == IF text = None \/ text = Some("") THEN None ELSE text

\* ------------------------------------------------------------ collect_fills

FillData(size, price, trade_time) ==
    [size |-> size, price |-> price, trade_time |-> trade_time]

\* map.entry(order_id).or_default().push(fill).
PushFill(map, order_id, fill) ==
    [k \in DOMAIN map \cup {order_id} |->
        IF k \in DOMAIN map
        THEN IF k = order_id THEN Append(map[k], fill) ELSE map[k]
        ELSE <<fill>>]

\* The loop `for fill in fills` of collect_fills.
RECURSIVE CollectLoop(_, _)
CollectLoop(fs, map) ==
    IF fs = <<>> THEN map
    ELSE LET fill     == Head(fs)
             order_id == NonEmpty(fill.order_id)
             size     == OrElse(decimal_from_value(fill.size),
                                decimal_from_value(fill.base_size))
             price    == OrElse(OrElse(decimal_from_value(fill.price),
                                       decimal_from_value(fill.unit_price)),
                                decimal_from_value(fill.average_price))
         IN  IF order_id = None THEN CollectLoop(Tail(fs), map)
             ELSE IF size = None \/ price = None THEN CollectLoop(Tail(fs), map)
             ELSE IF Unwrap(size) <= 0 \/ Unwrap(price) <= 0
                  THEN CollectLoop(Tail(fs), map)
             ELSE CollectLoop(Tail(fs),
                      PushFill(map, Unwrap(order_id),
                               FillData(Unwrap(size), Unwrap(price),
                                        ParseOptTime(fill.trade_time))))

collect_fills(fs) == CollectLoop(fs, <<>>)

\* ----------------------------------------------------- extract_order_config

\* The first key of `keys` under which the container holds an object.
RECURSIVE FirstObject(_, _)
FirstObject(container, keys) ==
    IF keys = <<>> THEN None
    ELSE LET entry == Get(container, Head(keys))
         IN  IF entry # None /\ as_object(Unwrap(entry)) # None
             THEN as_object(Unwrap(entry))
             ELSE FirstObject(container, Tail(keys))

LimitKeys == <<"limit_limit_gtd", "limit_limit_gtc">>
StopLimitKeys == <<"stop_limit_stop_limit_gtd", "stop_limit_stop_limit_gtc">>
TriggerBracketKeys == <<"trigger_bracket_gtd", "trigger_bracket_gtc">>
MarketKeys == <<"market_market_ioc", "market_market_gtc">>

ConfigResult(type, config) == [type |-> type, config |-> config]

\* The market keys are looked up first.
extract_order_config_marketFirst(value) ==
    IF value = None \/ as_object(Unwrap(value)) = None
    THEN ConfigResult("Unknown", None)
    ELSE LET container == Unwrap(as_object(Unwrap(value)))
         IN  IF FirstObject(container, MarketKeys) # None
             THEN ConfigResult("Market", FirstObject(container, MarketKeys))
             ELSE IF FirstObject(container, LimitKeys) # None
             THEN ConfigResult("Limit", FirstObject(container, LimitKeys))
             ELSE IF FirstObject(container, StopLimitKeys) # None
             THEN ConfigResult("StopLimit", FirstObject(container, StopLimitKeys))
             ELSE IF FirstObject(container, TriggerBracketKeys) # None
             THEN ConfigResult("TriggerBracket",
                               FirstObject(container, TriggerBracketKeys))
             ELSE ConfigResult("Unknown", None)

extract_order_config(value) ==
    IF value = None \/ as_object(Unwrap(value)) = None
    THEN ConfigResult("Unknown", None)
    ELSE LET container == Unwrap(as_object(Unwrap(value)))
         IN  IF FirstObject(container, LimitKeys) # None
             THEN ConfigResult("Limit", FirstObject(container, LimitKeys))
             ELSE IF FirstObject(container, StopLimitKeys) # None
             THEN ConfigResult("StopLimit", FirstObject(container, StopLimitKeys))
             ELSE IF FirstObject(container, TriggerBracketKeys) # None
             THEN ConfigResult("TriggerBracket",
                               FirstObject(container, TriggerBracketKeys))
             ELSE IF FirstObject(container, MarketKeys) # None
             THEN ConfigResult("Market", FirstObject(container, MarketKeys))
             ELSE ConfigResult("Unknown", None)

\* --------------------------------------------------- resolve_submitted_time

\* The earliest of the times that are present.
min_datetime(values) ==
    LET present == {Unwrap(values[i]) : i \in {j \in 1..Len(values) : values[j] # None}}
    IN  IF present = {} THEN None
        ELSE Some(CHOOSE t \in present : \A u \in present : ~DtLt(u, t))

\* The first candidate text that is present and parses.
RECURSIVE FirstParsed(_)
FirstParsed(candidates) ==
    IF candidates = <<>> THEN None
    ELSE IF ParseOptTime(Head(candidates)) # None THEN ParseOptTime(Head(candidates))
    ELSE FirstParsed(Tail(candidates))

Submitted(time, inferred) == [time |-> time, inferred |-> inferred]

FillTimes(fills_vec) == [i \in 1..Len(fills_vec) |-> fills_vec[i].trade_time]

\* The completed time is preferred to the fills' trade times.
resolve_submitted_time_completedFirst(order, fills_opt, completed, now) ==
    LET parsed == FirstParsed(<<order.submitted_time, order.created_time,
                                order.order_placed_time, order.last_fill_time>>)
        min_dt == IF fills_opt = None THEN None
                  ELSE min_datetime(FillTimes(Unwrap(fills_opt)))
    IN  IF parsed # None THEN Submitted(Unwrap(parsed), FALSE)
        ELSE IF completed # None THEN Submitted(Unwrap(completed), FALSE)
        ELSE IF min_dt # None THEN Submitted(Unwrap(min_dt), FALSE)
        ELSE Submitted(now, TRUE)

\* `now` is what Utc::now() returns if it is called.
resolve_submitted_time(order, fills_opt, completed, now) ==
    LET parsed == FirstParsed(<<order.submitted_time, order.created_time,
                                order.order_placed_time, order.last_fill_time>>)
        min_dt == IF fills_opt = None THEN None
                  ELSE min_datetime(FillTimes(Unwrap(fills_opt)))
    IN  IF parsed # None THEN Submitted(Unwrap(parsed), FALSE)
        ELSE IF min_dt # None THEN Submitted(Unwrap(min_dt), FALSE)
        ELSE IF completed # None THEN Submitted(Unwrap(completed), FALSE)
        ELSE Submitted(now, TRUE)

\* -------------------------------------------------- process_orders_internal

\* The status text is compared as given.
ResolveStatus_asGiven(order) ==
    LET text == OrElse(order.status, order.legacy_status)
    IN  IF text = None THEN "NEW" ELSE Unwrap(text)

\* status, else the legacy status, uppercased; "NEW" when both are absent.
ResolveStatus(order) ==
    LET text == OrElse(order.status, order.legacy_status)
    IN  IF text = None THEN "NEW" ELSE to_ascii_uppercase(Unwrap(text))

\* Side::try_from(..).unwrap_or(Side::Buy), rendered as "BUY" or "SELL".
ResolveSide(order) ==
    LET side_text == IF order.side = None THEN "BUY" ELSE Unwrap(order.side)
        side_enum == Side_try_from(side_text)
    IN  IF side_enum = Some("Sell") THEN "SELL" ELSE "BUY"

\* The sum of the fills' sizes, if positive.
FilledSize(fills_opt) ==
    IF fills_opt = None THEN None
    ELSE LET total == SumSeq([i \in 1..Len(Unwrap(fills_opt)) |-> Unwrap(fills_opt)[i].size])
         IN  IF total > 0 THEN Some(total) ELSE None

\* Iterator::last over the trade times that are present.
LastPresent(times) ==
    LET present == SelectSeq(times, LAMBDA t : t # None)
    IN  IF present = <<>> THEN None ELSE present[Len(present)]

\* completed_time: the order's own when the status is not "OPEN", else and
\* failing that the last trade time of the order's fills.
CompletedTime(order, status, fills_opt) ==
    LET own == IF status # "OPEN" THEN ParseOptTime(order.completed_time) ELSE None
    IN  IF own # None THEN own
        ELSE IF fills_opt # None THEN LastPresent(FillTimes(Unwrap(fills_opt)))
        ELSE None

\* The records of one order that passed both `continue`s. Of each record the
\* fields kept are the identity, the status, the side and the times; the
\* prices, sizes, end time and product id play no part in what follows.
OpenRecord(order_id, status, side) ==
    [order_id |-> order_id, status |-> status, side |-> side]

ExecutedRecord(order_id, status, side, submitted, completed, filled) ==
    [order_id              |-> order_id,
     ts_submitted          |-> submitted.time,
     ts_submitted_inferred |-> submitted.inferred,
     ts_filled             |-> completed,
     side                  |-> side,
     status                |-> status,
     filled_size           |-> filled]

ClockTimes == {DateTime(100, 0), DateTime(101, 0)}

\* `let fills_by_order = collect_fills(fills)` and the empty record lists.
CollectFills ==
    /\ opc = "start"
    /\ opc' = "orders"
    /\ fills_by_order' = collect_fills(fills)
    /\ UNCHANGED <<orders, fills, oidx, config_type, config_opt, open_records,
                   executed_records>>
    /\ UNCHANGED pnlVars

\* One iteration of `for order in orders`.
OrderStep ==
    /\ opc = "orders"
    /\ oidx < Len(orders)
    /\ oidx' = oidx + 1
    /\ LET order    == orders[oidx + 1]
           order_id == NonEmpty(order.order_id)
           status   == ResolveStatus(order)
           cfg      == extract_order_config(order.order_configuration)
       IN  IF order_id = None
           THEN UNCHANGED <<config_type, config_opt, open_records, executed_records>>
           ELSE /\ config_type' = cfg.type
                /\ config_opt' = cfg.config
                /\ IF cfg.config = None
                   THEN UNCHANGED <<open_records, executed_records>>
                   ELSE \E now \in ClockTimes :
                        LET fills_vec == Get(fills_by_order, Unwrap(order_id))
                            completed == CompletedTime(order, status, fills_vec)
                            submitted == resolve_submitted_time(order, fills_vec,
                                                                completed, now)
                            side_str  == ResolveSide(order)
                        IN  /\ open_records' =
                                   IF status = "OPEN"
                                   THEN Append(open_records,
                                            OpenRecord(Unwrap(order_id), status, side_str))
                                   ELSE open_records
                            /\ executed_records' =
                                   Append(executed_records,
                                       ExecutedRecord(Unwrap(order_id), status, side_str,
                                           submitted, completed, FilledSize(fills_vec)))
    /\ UNCHANGED <<opc, orders, fills, fills_by_order>>
    /\ UNCHANGED pnlVars

\* `Ok((open_records, executed_records))`.
ReturnRecords ==
    /\ opc = "orders"
    /\ oidx = Len(orders)
    /\ opc' = "done"
    /\ UNCHANGED <<orders, fills, fills_by_order, oidx, config_type, config_opt,
                   open_records, executed_records>>
    /\ UNCHANGED pnlVars

\* ----------------------------------- specification: process_orders_internal

ConfigKeys == {"limit_limit_gtd", "limit_limit_gtc",
               "stop_limit_stop_limit_gtd", "stop_limit_stop_limit_gtc",
               "trigger_bracket_gtd", "trigger_bracket_gtc",
               "market_market_ioc", "market_market_gtc"}

\* The field map held under a variant key, told apart by its content.
EntryAt(key) == [f \in {"variant"} |-> VString(key)]

\* A configuration object: `shape` says of every key whether it is absent,
\* holds a field map or holds null.
Container(shape) ==
    VObject([k \in {j \in DOMAIN shape : shape[j] # "absent"} |->
                IF shape[k] = "object" THEN VObject(EntryAt(k)) ELSE VNull])

LimitConfig ==
    Some(VObject([k \in {"limit_limit_gtc"} |-> VObject(EntryAt("limit_limit_gtc"))]))

UnknownConfig == Some(VObject([k \in {"other"} |-> VObject(EntryAt("other"))]))

BaseOrder ==
    [order_id            |-> Some("a"),
     status              |-> Some("FILLED"),
     legacy_status       |-> None,
     side                |-> Some("sell"),
     completed_time      |-> None,
     submitted_time      |-> None,
     created_time        |-> None,
     order_placed_time   |-> None,
     last_fill_time      |-> None,
     order_configuration |-> LimitConfig]

RawFill(order_id, trade_time, size, price) ==
    [order_id      |-> order_id,
     trade_time    |-> trade_time,
     size          |-> size,
     base_size     |-> None,
     price         |-> price,
     unit_price    |-> None,
     average_price |-> None]

FillAt(order_id, trade_time) ==
    RawFill(Some(order_id), trade_time, Some(VString("1")), Some(VNumber("2")))

T5 == Some("1970-01-01T00:00:05Z")
T7 == Some("1970-01-01T00:00:07Z")

\* Orders that differ in id, status, legacy status and configuration.
StatusShapes ==
    {[BaseOrder EXCEPT !.order_id = id, !.status = st, !.legacy_status = ls,
                       !.order_configuration = cf] :
        id \in {Some("a"), Some("b")},
        st \in {None, Some("open"), Some("FILLED")},
        ls \in {None, Some("OPEN")},
        cf \in {LimitConfig, UnknownConfig}}
    \cup
    {[BaseOrder EXCEPT !.order_id = id, !.status = Some("OPEN")] : id \in {None, Some("")}}

StatusInputs ==
    [orders : UNION {[1..n -> StatusShapes] : n \in 0..MaxOrders},
     fills  : {<<FillAt("a", T5)>>}]

\* One order with a configuration of every shape over the variant keys, no
\* configuration at all, or one that is not an object.
ConfigInputs ==
    [orders : {<<[BaseOrder EXCEPT !.status = Some("Open"), !.order_configuration = cf]>> :
                  cf \in {Some(Container(shape)) :
                             shape \in [ConfigKeys -> {"absent", "object", "null"}]}
                         \cup {None, Some(VString("limit_limit_gtc")), UnknownConfig}},
     fills  : {<<>>}]

\* One order whose time fields are each absent, unparseable or a time of
\* their own, with fills of every kind.
TimeOrders ==
    {[BaseOrder EXCEPT !.status = st, !.completed_time = ct, !.submitted_time = sub,
                       !.created_time = cre, !.order_placed_time = pla,
                       !.last_fill_time = lf] :
        st  \in {Some("OPEN"), Some("FILLED")},
        ct  \in {None, Some("1970-01-01T00:01:00Z")},
        sub \in {None, Some(""), Some("1970-01-01T00:00:10Z")},
        cre \in {None, Some("yesterday"), Some("1970-01-01T01:00:20+01:00")},
        pla \in {None, Some("   "), Some("1970-01-01T00:00:30.5")},
        lf  \in {None, Some("yesterday"), Some("1970-01-01 00:00:35")}}

TimeFills ==
    {<<>>,
     <<FillAt("a", None)>>,
     <<FillAt("a", T5)>>,
     <<FillAt("a", T7), FillAt("a", T5)>>,
     <<FillAt("a", T5), FillAt("a", T7)>>,
     <<FillAt("a", T7), FillAt("a", Some("yesterday"))>>,
     <<FillAt("b", T5)>>,
     <<RawFill(Some("a"), T5, Some(VString("0")), Some(VString("2")))>>}

TimeInputs == [orders : {<<o>> : o \in TimeOrders}, fills : TimeFills]

\* A fill with each field of RawFill given on its own.
AliasFill(order_id, size, base_size, price, unit_price, average_price) ==
    [order_id      |-> order_id,
     trade_time    |-> T5,
     size          |-> size,
     base_size     |-> base_size,
     price         |-> price,
     unit_price    |-> unit_price,
     average_price |-> average_price]

\* One fill whose id is absent, empty or a real one, and whose size and price
\* aliases are each absent, not a decimal, zero, negative or positive.
AliasFills ==
    {<<AliasFill(id, sz, bsz, pr, upr, apr)>> :
        id  \in {None, Some(""), Some("a")},
        sz  \in {None, Some(VString("x")), Some(VString("0")), Some(VNumber("1"))},
        bsz \in {None, Some(VString(" 2")), Some(VNull)},
        pr  \in {None, Some(VString("0")), Some(VString("-1")), Some(VNumber("1"))},
        upr \in {None, Some(VString("x")), Some(VNumber("2"))},
        apr \in {None, Some(VString("3"))}}

AliasInputs ==
    [orders : {<<BaseOrder>>}, fills : AliasFills]

InitOrders ==
    \E inp \in StatusInputs \cup ConfigInputs \cup TimeInputs \cup AliasInputs :
        /\ opc = "start"
        /\ orders = inp.orders
        /\ fills = inp.fills
        /\ fills_by_order = <<>>
        /\ oidx = 0
        /\ config_type = "Unknown"
        /\ config_opt = None
        /\ open_records = <<>>
        /\ executed_records = <<>>
        /\ PnlIdle

NextOrders == CollectFills \/ OrderStep \/ ReturnRecords

SpecOrders == InitOrders /\ [][NextOrders]_vars

\* ------------------------------------------------------------------ claims

\* Sum of the sizes of the first k lots of a queue.
PrefixSize(lots, k) == SumSeq([i \in 1..k |-> lots[i].size])

\* Number of lots at the front of `lots` that a trade of `size` closes whole.
ClosedWhole(lots, size) ==
    CHOOSE k \in 0..Len(lots) :
        /\ PrefixSize(lots, k) <= size
        /\ k < Len(lots) => PrefixSize(lots, k + 1) > size

\* Profit per unit of closing a lot at lotPrice with a trade at price.
UnitGain(side, price, lotPrice) ==
    IF side = "Buy" THEN lotPrice - price ELSE price - lotPrice

\* What strict oldest-first matching of `trade` against `opp` must leave:
\* the k oldest lots are closed whole, the next one is reduced by what is
\* left of the trade, and only a trade that outlasts the whole opposite queue
\* adds a lot, at the back of its own queue.
FifoStep(trade, opp, own, opp2, own2, realized) ==
    LET k    == ClosedWhole(opp, trade.size)
        rest == trade.size - PrefixSize(opp, k)
    IN  /\ realized =
              SumSeq([i \in 1..k |->
                         UnitGain(trade.side, trade.price, opp[i].price) * opp[i].size])
              + (IF k < Len(opp)
                 THEN UnitGain(trade.side, trade.price, opp[k + 1].price) * rest
                 ELSE 0)
        /\ opp2 = IF k < Len(opp) /\ rest > 0
                  THEN <<Lot(opp[k + 1].price, opp[k + 1].size - rest)>>
                           \o SubSeq(opp, k + 2, Len(opp))
                  ELSE SubSeq(opp, k + 1, Len(opp))
        /\ own2 = IF k = Len(opp) /\ rest > 0
                  THEN Append(own, Lot(trade.price, rest))
                  ELSE own

C1_Step ==
    Len(entries') = Len(entries) + 1 =>
        LET trade    == parsed_trades[Len(entries) + 1]
            realized == entries'[Len(entries')].realized_profit
        IN  /\ IF trade.side = "Sell"
               THEN FifoStep(trade, long_lots, short_lots, long_lots', short_lots',
                             realized)
               ELSE FifoStep(trade, short_lots, long_lots, short_lots', long_lots',
                             realized)
            /\ (parsed_trades = FifoExample /\ Len(entries') = 4) =>
                   /\ realized = 170
                   /\ long_lots' = <<Lot(30, 1)>>
                   /\ short_lots' = <<>>

\* C1: every trade closes the opposite-side lots strictly oldest-first, with
\* matched = min(remaining, front.size) and the per-lot profit of its side,
\* and only its unmatched remainder becomes a new lot at the back of its own
\* queue; buys of 1 at 10, 20, 30 then a sell of 2 at 100 realize 170 and
\* leave one long lot of size 1 at 30.
C1_FifoMatching == [][C1_Step]_vars

C1_Witness ==
    /\ parsed_trades = FifoExample
    /\ Len(entries) = 4
    /\ entries[4].realized_profit = 170
    /\ long_lots = <<Lot(30, 1)>>

\* C2: the entry of every trade carries its whole notional as maker volume
\* (postOnly, fee at the maker rate) or as taker volume (otherwise, fee at the
\* taker rate), the other volume being zero, whatever part of it was matched.
C2_MakerTakerVolume ==
    \A i \in 1..Len(entries) :
        LET trade    == parsed_trades[i]
            e        == entries[i]
            notional == trade.price * trade.size
        IN  /\ (e.maker_volume # 0) # (e.taker_volume # 0)
            /\ trade.post_only =>
                   /\ e.maker_volume = notional
                   /\ e.taker_volume = 0
                   /\ e.fee = notional * maker_fee
            /\ ~trade.post_only =>
                   /\ e.taker_volume = notional
                   /\ e.maker_volume = 0
                   /\ e.fee = notional * taker_fee

\* A postOnly trade that was matched in part and one that matched nothing.
C2_Witness ==
    /\ pc = "build"
    /\ Len(entries) >= 2
    /\ parsed_trades[1].post_only /\ entries[1].realized_profit = 0
    /\ parsed_trades[2].post_only /\ entries[2].realized_profit # 0
    /\ parsed_trades[2].size > parsed_trades[1].size
    /\ maker_fee # taker_fee

\* Sum of a function with a finite domain.
RECURSIVE SumFn(_)
SumFn(f) ==
    IF DOMAIN f = {} THEN 0
    ELSE LET i == CHOOSE j \in DOMAIN f : TRUE
         IN  f[i] + SumFn([j \in DOMAIN f \ {i} |-> f[j]])

\* An instant as microseconds since the epoch.
ToMicros(dt) == dt.secs * MicrosPerSecond + dt.nanos \div NanosPerMicro

MaxOf(a, b) == IF a >= b THEN a ELSE b

\* C6: the start of an interval is cutoff when deltaSeconds is absent and
\* max(cutoff, now - max(deltaSeconds, 0)) otherwise: never before cutoff, a
\* negative deltaSeconds acts as 0, and a deltaSeconds beyond now - cutoff
\* gives cutoff.
C6_IntervalStart ==
    \A k \in 1..Len(intervals_py) :
        LET delta == intervals[k].delta_seconds
            start == ToMicros(intervals_py[k].start)
        IN  /\ start >= cutoff_us
            /\ delta = None => start = cutoff_us
            /\ delta # None =>
                   /\ start = MaxOf(cutoff_us,
                                    now_us - MaxOf(Unwrap(delta), 0) * MicrosPerSecond)
                   /\ Unwrap(delta) < 0 =>
                          intervals_py[k].start = interval_start(Now, Some(0), Cutoff)
                   /\ Unwrap(delta) * MicrosPerSecond > now_us - cutoff_us =>
                          intervals_py[k].start = interval_start(Now, None, Cutoff)

\* One call with a negative deltaSeconds, whose window starts at now, after
\* cutoff, and a deltaSeconds that reaches before cutoff and is clamped.
C6_Witness ==
    \E a, b \in 1..Len(intervals_py) :
        /\ intervals[a].delta_seconds = Some(-1)
        /\ intervals_py[a].start = Now
        /\ DtLt(Cutoff, Now)
        /\ intervals[b].delta_seconds = Some(5)
        /\ intervals_py[b].start = Cutoff
        /\ now_us - 5 * MicrosPerSecond < cutoff_us

\* The entries an interval starting at `start` covers.
Covered(start) ==
    {i \in 1..Len(entries) : ToMicros(entries[i].timestamp) >= ToMicros(start)}

\* C7: the four sums of an interval are the sums of the entry fields over
\* exactly the entries with timestamp >= start, and profitAfterFees is
\* profitBeforeFees - feeTotal.
C7_IntervalSums ==
    \A k \in 1..Len(intervals_py) :
        LET m  == intervals_py[k].metrics
            In == Covered(intervals_py[k].start)
        IN  /\ m.profit_before_fees = SumFn([i \in In |-> entries[i].realized_profit])
            /\ m.maker_volume = SumFn([i \in In |-> entries[i].maker_volume])
            /\ m.taker_volume = SumFn([i \in In |-> entries[i].taker_volume])
            /\ m.fee_total = SumFn([i \in In |-> entries[i].fee])
            /\ m.profit_after_fees = m.profit_before_fees - m.fee_total

\* An interval with an entry exactly at its start, one before and one after,
\* and profit in the entries it covers.
C7_Witness ==
    \E k \in 1..Len(intervals_py) :
        /\ \E i \in 1..Len(entries) : entries[i].timestamp = intervals_py[k].start
        /\ \E i \in 1..Len(entries) : DtLt(entries[i].timestamp, intervals_py[k].start)
        /\ \E i \in 1..Len(entries) : DtLt(intervals_py[k].start, entries[i].timestamp)
        /\ intervals_py[k].metrics.profit_before_fees # 0
        /\ intervals_py[k].metrics.maker_volume # 0
        /\ intervals_py[k].metrics.taker_volume # 0

AllKeyed == {k \in 1..Len(intervals) : intervals[k].key = "all"}

LastAllKeyed == CHOOSE k \in AllKeyed : \A j \in AllKeyed : j <= k

AccountProfit == SumFn([i \in 1..Len(entries) |-> entries[i].realized_profit])
AccountFees == SumFn([i \in 1..Len(entries) |-> entries[i].fee])

\* C8 as stated: the totals are those of the interval keyed "all" and so the
\* account-wide sums over all entries since cutoff.
C8_TotalsAccountWide ==
    (pc = "done" /\ Cardinality(AllKeyed) = 1) =>
        /\ total_before = intervals_py[LastAllKeyed].metrics.profit_before_fees
        /\ total_after = intervals_py[LastAllKeyed].metrics.profit_after_fees
        /\ total_before = AccountProfit
        /\ total_after = AccountProfit - AccountFees

\* C8 (amended): the totals are those of the last interval keyed "all" (zero
\* when there is none), whatever the other intervals are; they are the
\* account-wide sums over all entries when that interval starts at cutoff.
C8_TotalsFromAll ==
    pc = "done" =>
        IF AllKeyed = {}
        THEN total_before = 0 /\ total_after = 0
        ELSE LET r == intervals_py[LastAllKeyed]
             IN  /\ total_before = r.metrics.profit_before_fees
                 /\ total_after = r.metrics.profit_after_fees
                 /\ r.start = Cutoff =>
                        /\ total_before = AccountProfit
                        /\ total_after = AccountProfit - AccountFees

\* The "all" interval starts at cutoff and is followed by an interval of
\* another key with another profit.
C8_Witness ==
    /\ pc = "done"
    /\ Len(intervals) = 2
    /\ intervals[1].key = "all"
    /\ intervals[2].key = "day"
    /\ intervals_py[1].start = Cutoff
    /\ total_before # 0
    /\ intervals_py[2].metrics.profit_before_fees # total_before
    /\ intervals_py[2].metrics.profit_after_fees # total_after

\* A raw trade that passes the price and size tests but names no side.
BadSide(t) ==
    /\ parse_decimal(t.price) # None /\ Unwrap(parse_decimal(t.price)) > 0
    /\ parse_decimal(t.size) # None /\ Unwrap(parse_decimal(t.size)) > 0
    /\ to_ascii_uppercase(t.side) \notin {"BUY", "SELL"}

\* C9: a trade with price > 0, size > 0 and an unrecognized side aborts the
\* whole call, whatever its timestamp.
C9_BadSideAborts ==
    (pc # "start" /\ \E i \in 1..Len(trades_in) : BadSide(trades_in[i])) => pc = "error"

\* A raw trade the normalizer keeps.
Survives(t) ==
    /\ Unwrap(parse_decimal(t.price)) > 0
    /\ Unwrap(parse_decimal(t.size)) > 0
    /\ t.timestamp_us >= cutoff_us

\* The raw trades of `s` in ascending order of the timestamps in T, those of
\* one timestamp in their order in `s`.
RECURSIVE ByTime(_, _)
ByTime(s, T) ==
    IF T = {} THEN <<>>
    ELSE LET m == CHOOSE x \in T : \A y \in T : x <= y
         IN  SelectSeq(s, LAMBDA t : t.timestamp_us = m) \o ByTime(s, T \ {m})

\* C10: a call that does not abort hands the surviving trades to the matching
\* engine sorted by timestamp, equal timestamps in input order, and produces
\* one entry per surviving trade in that order: never more entries than input
\* trades, entry timestamps nondecreasing.
C10_SortedEntries ==
    pc \in {"build", "done"} =>
        LET survivors == SelectSeq(trades_in, Survives)
            expected  == ByTime(survivors,
                             {survivors[i].timestamp_us : i \in 1..Len(survivors)})
        IN  /\ Len(parsed_trades) = Len(expected)
            /\ \A i \in 1..Len(parsed_trades) :
                   /\ ToMicros(parsed_trades[i].timestamp) = expected[i].timestamp_us
                   /\ parsed_trades[i].price = Unwrap(parse_decimal(expected[i].price))
                   /\ parsed_trades[i].size = Unwrap(parse_decimal(expected[i].size))
                   /\ parsed_trades[i].post_only = expected[i].post_only
            /\ Len(entries) <= Len(trades_in)
            /\ pc = "done" => Len(entries) = Len(survivors)
            /\ \A i \in 1..Len(entries) :
                   /\ ToMicros(entries[i].timestamp) = expected[i].timestamp_us
                   /\ entries[i].maker_volume + entries[i].taker_volume =
                          parsed_trades[i].price * parsed_trades[i].size
                   /\ i > 1 => ~DtLt(entries[i].timestamp, entries[i - 1].timestamp)

\* Input out of order, with two trades of one timestamp and two dropped
\* trades; the first entry matched nothing.
C10_Witness ==
    /\ pc = "done"
    /\ trades_in = AggTrades
    /\ cutoff_us = 1500000
    /\ Len(entries) = 4
    /\ entries[1].realized_profit = 0
    /\ entries[1].timestamp = entries[2].timestamp
    /\ entries[1].maker_volume # 0
    /\ entries[2].taker_volume # 0

\* The configuration holds a field map under `key`.
HoldsObject(cfg, key) ==
    /\ cfg # None
    /\ Unwrap(cfg).kind = "Object"
    /\ key \in DOMAIN Unwrap(cfg).fields
    /\ Unwrap(cfg).fields[key].kind = "Object"

\* The configuration has `key`, whatever it holds.
HasKey(cfg, key) ==
    /\ cfg # None
    /\ Unwrap(cfg).kind = "Object"
    /\ key \in DOMAIN Unwrap(cfg).fields

KindRank == <<"Limit", "StopLimit", "TriggerBracket", "Market">>

KeysOfKind(kind) ==
    CASE kind = "Limit"          -> LimitKeys
      [] kind = "StopLimit"      -> StopLimitKeys
      [] kind = "TriggerBracket" -> TriggerBracketKeys
      [] kind = "Market"         -> MarketKeys

\* The kinds one of whose two keys satisfies Test, as ranks in the priority
\* order.
RanksWith(cfg, Test(_, _)) ==
    {r \in 1..4 : \E n \in 1..2 : Test(cfg, KeysOfKind(KindRank[r])[n])}

\* The kind of the first key, in priority order, that satisfies Test.
KindBy(cfg, Test(_, _)) ==
    LET ranks == RanksWith(cfg, Test)
    IN  IF ranks = {} THEN "Unknown"
        ELSE KindRank[CHOOSE r \in ranks : \A q \in ranks : r <= q]

\* The field map of the first key, in priority order, that holds one.
EntryBy(cfg) ==
    LET keys == KeysOfKind(KindBy(cfg, HoldsObject))
        key  == IF HoldsObject(cfg, keys[1]) THEN keys[1] ELSE keys[2]
    IN  Unwrap(cfg).fields[key].fields

HasId(order) == order.order_id # None /\ order.order_id # Some("")

\* An order that passes both `continue`s of the loop.
Qualifies(order) ==
    HasId(order) /\ KindBy(order.order_configuration, HoldsObject) # "Unknown"

StatusOf(order) ==
    IF order.status # None THEN to_ascii_uppercase(Unwrap(order.status))
    ELSE IF order.legacy_status # None THEN to_ascii_uppercase(Unwrap(order.legacy_status))
    ELSE "NEW"

\* The orders taken so far that qualify, as indices into `orders`.
QualIdx == SelectSeq([i \in 1..oidx |-> i], LAMBDA i : Qualifies(orders[i]))

OpenIdx == SelectSeq(QualIdx, LAMBDA i : StatusOf(orders[i]) = "OPEN")

\* C3: there is exactly one ExecutedRecord for each order with a non-empty id
\* and a classifiable configuration, and an OpenRecord for it exactly when its
\* uppercased status is "OPEN": every OPEN order is in both lists, no other
\* order is in openRecords, every open id is an executed id.
C3_OpenIffStatusOpen ==
    /\ Len(executed_records) = Len(QualIdx)
    /\ \A j \in 1..Len(executed_records) :
           /\ executed_records[j].order_id = Unwrap(orders[QualIdx[j]].order_id)
           /\ executed_records[j].status = StatusOf(orders[QualIdx[j]])
    /\ Len(open_records) = Len(OpenIdx)
    /\ \A j \in 1..Len(open_records) :
           /\ open_records[j].order_id = Unwrap(orders[OpenIdx[j]].order_id)
           /\ open_records[j].status = "OPEN"
           /\ \E k \in 1..Len(executed_records) :
                  /\ executed_records[k].order_id = open_records[j].order_id
                  /\ executed_records[k].status = "OPEN"

\* Two orders, one open by its lowercase status and one not open.
C3_Witness ==
    /\ opc = "done"
    /\ Len(orders) = 2
    /\ orders[1].status = Some("open")
    /\ Len(open_records) = 1
    /\ Len(executed_records) = 2
    /\ executed_records[2].status # "OPEN"

\* The time an order's text fields give: the first, in the order submitted,
\* created, placed, last fill, that parses.
FieldTime(order) ==
    LET texts == <<order.submitted_time, order.created_time, order.order_placed_time,
                   order.last_fill_time>>
        good  == {i \in 1..4 : ParseOptTime(texts[i]) # None}
    IN  IF good = {} THEN None
        ELSE ParseOptTime(texts[CHOOSE i \in good : \A j \in good : i <= j])

\* The trade times of the fills kept for an order.
KeptFillTimes(order) ==
    LET id == Unwrap(order.order_id)
    IN  IF id \notin DOMAIN fills_by_order THEN {}
        ELSE {Unwrap(fills_by_order[id][i].trade_time) :
                 i \in {j \in 1..Len(fills_by_order[id]) :
                           fills_by_order[id][j].trade_time # None}}

Earliest(times) == CHOOSE t \in times : \A u \in times : ToMicros(t) <= ToMicros(u)

\* C4 as stated for an order without any of the four time fields: a fill of
\* the order exists, so the submitted time is the earliest fill's trade time
\* and is not inferred.
C4_FillExistsGivesFillTime ==
    \A j \in 1..Len(executed_records) :
        LET order == orders[QualIdx[j]]
            r     == executed_records[j]
        IN  (/\ order.submitted_time = None
             /\ order.created_time = None
             /\ order.order_placed_time = None
             /\ order.last_fill_time = None
             /\ Unwrap(order.order_id) \in DOMAIN fills_by_order) =>
                /\ ~r.ts_submitted_inferred
                /\ KeptFillTimes(order) # {}
                /\ r.ts_submitted = Earliest(KeptFillTimes(order))

\* C4 (amended): the submitted time is the first that is available of: the
\* four text fields in order (one that does not parse counts as absent), the
\* earliest trade time among the order's fills that have one, the completed
\* time, the wall clock; it is inferred exactly when the wall clock was used.
C4_SubmittedTimePrecedence ==
    \A j \in 1..Len(executed_records) :
        LET order == orders[QualIdx[j]]
            r     == executed_records[j]
        IN  IF FieldTime(order) # None
            THEN r.ts_submitted = Unwrap(FieldTime(order)) /\ ~r.ts_submitted_inferred
            ELSE IF KeptFillTimes(order) # {}
            THEN /\ r.ts_submitted = Earliest(KeptFillTimes(order))
                 /\ ~r.ts_submitted_inferred
            ELSE IF r.ts_filled # None
            THEN r.ts_submitted = Unwrap(r.ts_filled) /\ ~r.ts_submitted_inferred
            ELSE r.ts_submitted \in ClockTimes /\ r.ts_submitted_inferred

\* No text field parses (one is present), and the fills, given latest last,
\* decide: the earliest trade time is taken, not the completed time.
C4_Witness ==
    /\ Len(orders) = 1
    /\ Len(executed_records) = 1
    /\ orders[1].created_time = Some("yesterday")
    /\ orders[1].submitted_time = None
    /\ fills = <<FillAt("a", T5), FillAt("a", T7)>>
    /\ executed_records[1].ts_submitted = DateTime(5, 0)
    /\ executed_records[1].ts_filled = Some(DateTime(7, 0))
    /\ ~executed_records[1].ts_submitted_inferred

\* The order taken last.
LastTaken == orders[oidx]

\* C5 as stated: the kind is that of the first recognized key the
\* configuration contains, and Unknown exactly when it contains none.
C5_FirstKeyPresent ==
    (oidx > 0 /\ HasId(LastTaken)) =>
        config_type = KindBy(LastTaken.order_configuration, HasKey)

\* C5 (amended): the kind is that of the first recognized key, in the order
\* Limit, StopLimit, TriggerBracket, Market (gtd or ioc before gtc), that
\* holds a field map, with that field map; it is Unknown exactly when there
\* is no such key, and an Unknown order leaves no record.
C5_FirstKeyHoldingObject ==
    /\ (oidx > 0 /\ HasId(LastTaken)) =>
           LET cfg == LastTaken.order_configuration
           IN  /\ config_type = KindBy(cfg, HoldsObject)
               /\ config_type = "Unknown" <=>
                      \A k \in ConfigKeys : ~HoldsObject(cfg, k)
               /\ config_type = "Unknown" => config_opt = None
               /\ config_type # "Unknown" => config_opt = Some(EntryBy(cfg))
    /\ Len(executed_records) =
           Cardinality({i \in 1..oidx :
               HasId(orders[i]) /\ KindBy(orders[i].order_configuration, HoldsObject)
                                       # "Unknown"})
    /\ Len(open_records) <= Len(executed_records)

\* Keys of three kinds at once: the limit key holds null, the stop-limit and
\* market keys hold field maps.
C5_Witness ==
    /\ oidx = 1
    /\ config_type = "StopLimit"
    /\ config_opt = Some(EntryAt("stop_limit_stop_limit_gtc"))
    /\ HasKey(orders[1].order_configuration, "limit_limit_gtd")
    /\ HoldsObject(orders[1].order_configuration, "market_market_ioc")
    /\ Len(executed_records) = 1
    /\ Len(open_records) = 1

Latest(times) == CHOOSE t \in times : \A u \in times : ToMicros(u) <= ToMicros(t)

\* C11: for an order that is OPEN, or whose own completed time is absent or
\* does not parse, ts_filled is the latest trade time among the order's kept
\* fills, whatever their order in the input, and is absent only when no kept
\* fill has a trade time.
C11_FilledIsLatestFill ==
    \A j \in 1..Len(executed_records) :
        LET order == orders[QualIdx[j]]
            r     == executed_records[j]
        IN  (StatusOf(order) = "OPEN" \/ ParseOptTime(order.completed_time) = None) =>
                IF KeptFillTimes(order) = {}
                THEN r.ts_filled = None
                ELSE r.ts_filled = Some(Latest(KeptFillTimes(order)))

\* Whether some alias among `values` resolves to a positive decimal.
SomePositive(values) ==
    \E i \in 1..Len(values) :
        /\ decimal_from_value(values[i]) # None
        /\ Unwrap(decimal_from_value(values[i])) > 0

\* The first alias among `values` that resolves to a positive decimal.
FirstPositive(values) ==
    LET i == CHOOSE k \in 1..Len(values) :
                 /\ decimal_from_value(values[k]) # None
                 /\ Unwrap(decimal_from_value(values[k])) > 0
                 /\ \A m \in 1..(k - 1) :
                        \/ decimal_from_value(values[m]) = None
                        \/ Unwrap(decimal_from_value(values[m])) <= 0
    IN  Unwrap(decimal_from_value(values[i]))

SizeAliases(fill)  == <<fill.size, fill.base_size>>
PriceAliases(fill) == <<fill.price, fill.unit_price, fill.average_price>>

\* The fills the claim keeps: a real order id, a positive size alias and a
\* positive price alias.
KeptByAlias(fill) ==
    /\ NonEmpty(fill.order_id) # None
    /\ SomePositive(SizeAliases(fill))
    /\ SomePositive(PriceAliases(fill))

\* The kept fills of one order id, in input order, with the values of the
\* first positive aliases.
RECURSIVE KeptUnder(_, _)
KeptUnder(fs, id) ==
    IF fs = <<>> THEN <<>>
    ELSE LET fill == Head(fs)
         IN  IF KeptByAlias(fill) /\ fill.order_id = Some(id)
             THEN <<FillData(FirstPositive(SizeAliases(fill)),
                             FirstPositive(PriceAliases(fill)),
                             ParseOptTime(fill.trade_time))>>
                  \o KeptUnder(Tail(fs), id)
             ELSE KeptUnder(Tail(fs), id)

\* C12: once the fills are collected, a fill is dropped exactly when its
\* order id is missing or empty, or no size alias (size, base_size) resolves
\* to a positive decimal, or no price alias (price, unit_price,
\* average_price) resolves to a positive decimal; every other fill is kept
\* under its order id with the value of its first positive alias.
C12_DroppedExactlyWhenUnresolved ==
    opc # "start" =>
        /\ DOMAIN fills_by_order =
               {Unwrap(fills[i].order_id) : i \in {k \in 1..Len(fills) : KeptByAlias(fills[k])}}
        /\ \A id \in DOMAIN fills_by_order : fills_by_order[id] = KeptUnder(fills, id)

\* The trade that the step from this state processes, and the one processed
\* last.
NextTrade == parsed_trades[Len(entries) + 1]
LastTrade == parsed_trades[Len(entries)]

\* One step of build_entries as C13 has it: afterwards one queue at most
\* holds lots, every queued lot has a positive size, and the trade's own
\* queue grew only if the opposite queue is empty after the matching.
C13_Step ==
    Len(entries') = Len(entries) + 1 =>
        LET own  == IF NextTrade.side = "Buy" THEN long_lots ELSE short_lots
            own2 == IF NextTrade.side = "Buy" THEN long_lots' ELSE short_lots'
            opp2 == IF NextTrade.side = "Buy" THEN short_lots' ELSE long_lots'
        IN  /\ long_lots' = <<>> \/ short_lots' = <<>>
            /\ \A i \in 1..Len(long_lots') : long_lots'[i].size > 0
            /\ \A i \in 1..Len(short_lots') : short_lots'[i].size > 0
            /\ own2 # own => opp2 = <<>> /\ Len(own2) = Len(own) + 1

\* C13: after each trade processed by build_entries at most one of the long
\* and short queues is non-empty; a trade appends a lot to its own queue
\* only when the opposite queue is empty after matching.
C13_OneSidedInventory == [][C13_Step]_vars

\* A buy of 1 then a sell of 2: the sell closes the long lot, exhausts the
\* long queue and opens a short lot of 1 in the same step.
C13_Witness ==
    /\ Len(entries) = 2
    /\ parsed_trades[1].side = "Buy" /\ parsed_trades[1].size = 1
    /\ LastTrade.side = "Sell" /\ LastTrade.size = 2
    /\ long_lots = <<>>
    /\ short_lots = <<Lot(LastTrade.price, 1)>>

\* Sum of price * size over the processed trades of one side, and of their
\* sizes.
SideNotional(side) ==
    SumSeq([i \in 1..Len(entries) |->
               IF parsed_trades[i].side = side
               THEN parsed_trades[i].price * parsed_trades[i].size ELSE 0])

SideSize(side) ==
    SumSeq([i \in 1..Len(entries) |->
               IF parsed_trades[i].side = side THEN parsed_trades[i].size ELSE 0])

\* Sum of price * size over a queue, and of its sizes.
LotValue(lots) == SumSeq([i \in 1..Len(lots) |-> lots[i].price * lots[i].size])
LotSize(lots)  == SumSeq([i \in 1..Len(lots) |-> lots[i].size])

RealizedSoFar == SumSeq([i \in 1..Len(entries) |-> entries[i].realized_profit])

\* C14: after any prefix of the trades, the realized profit so far equals
\* the sells' notional less the buys' notional plus the value of the queued
\* long lots less the value of the queued short lots, and queued long size
\* less queued short size equals bought size less sold size; so a buy of S
\* at P1 followed by a sell of S at P2 realizes S * (P2 - P1) and leaves both
\* queues empty.
C14_Conservation ==
    /\ RealizedSoFar = SideNotional("Sell") - SideNotional("Buy")
                           + LotValue(long_lots) - LotValue(short_lots)
    /\ LotSize(long_lots) - LotSize(short_lots) = SideSize("Buy") - SideSize("Sell")
    /\ (/\ Len(entries) = 2
        /\ parsed_trades[1].side = "Buy"
        /\ parsed_trades[2].side = "Sell"
        /\ parsed_trades[1].size = parsed_trades[2].size)
           => /\ RealizedSoFar = parsed_trades[1].size
                                    * (parsed_trades[2].price - parsed_trades[1].price)
              /\ long_lots = <<>>
              /\ short_lots = <<>>

\* A buy of 2 at 1 then a sell of 2 at 3: 4 realized, nothing queued.
C14_Witness ==
    /\ Len(entries) = 2
    /\ parsed_trades[1].side = "Buy" /\ parsed_trades[1].size = 2 /\ parsed_trades[1].price = 1
    /\ parsed_trades[2].side = "Sell" /\ parsed_trades[2].size = 2 /\ parsed_trades[2].price = 3
    /\ RealizedSoFar = 4
    /\ long_lots = <<>>
    /\ short_lots = <<>>

====
